---- MODULE Spec2Model ----
(***************************************************************************)
(* A model of the task-orchestration engine of the paper review system     *)
(* (src/main.py): the retrying task runner Agent.run, the asynchronous     *)
(* runner AsyncAgent.arun, the memoizing runner CachingAsyncAgent.arun and *)
(* the staged pipeline ReviewOrchestrator.execute_review_process.          *)
(*                                                                         *)
(* Specifications:                                                         *)
(*   SpecAgent  one Agent.run call (with its tenacity retry wrapper) and   *)
(*              one AsyncAgent.arun call on the same message;              *)
(*   SpecCache  several arun calls on one CachingAsyncAgent instance;      *)
(*   Spec       one run of execute_review_process.                         *)
(***************************************************************************)
EXTENDS Integers, Sequences, FiniteSets, TLC

VARIABLES
    \* ---- Agent.run / AsyncAgent.arun ----
    client,          \* Agent.client is set (an API key was configured)
    message,         \* the message argument
    behaviour,       \* what the capability answers to its 1st, 2nd, ... call
    run_pc,          \* position of Agent.run inside the retry wrapper
    attempt_number,  \* tenacity's retry_state.attempt_number
    calls,           \* chat.completions.create calls issued by Agent.run
    entries,         \* times the body of Agent.run was entered
    waits,           \* the backoff waits slept so far, in order
    run_outcome,     \* what the wrapped Agent.run returned or raised
    arun_pc,         \* position of AsyncAgent.arun
    arun_calls,      \* create calls issued by AsyncAgent.arun
    arun_outcome,    \* what AsyncAgent.arun returned or raised
    \* ---- CachingAsyncAgent ----
    _cache,          \* CachingAsyncAgent._cache: hash key -> text
    callers,         \* the arun calls made on the instance, in start order
    issued,          \* underlying calls issued so far, per message
    overlapped,      \* some arun started while another one was suspended
    \* ---- ReviewOrchestrator.execute_review_process ----
    pc,              \* position of the run
    has_key,         \* config.api_key is set (the orchestrator has a client)
    env_key,         \* Config().api_key is set (the agents have a client)
    assess_response, \* what the complexity assessment call answered
    complexity_score,\* the assessed score, in hundredths
    agents,          \* self.agents: name -> agent (its model tier)
    tasks,           \* the tasks launched by _batch_process_agents, in order
    task_result,     \* what each launched task returned or raised
    reviews,         \* the ResultMap: an insertion-ordered dict of entries
    stage_input,     \* the sections of the message each fan-in stage was given
    editor_decision, \* the decision artifact
    final_results,   \* the value returned by the run
    out_of_order,    \* a primary task ended while one listed before it was running
    timeout_expired  \* config.agent_timeout has elapsed since the tasks were launched

agentVars == <<client, message, behaviour, run_pc, attempt_number, calls,
               entries, waits, run_outcome, arun_pc, arun_calls, arun_outcome>>
cacheVars == <<_cache, callers, issued, overlapped>>
runVars == <<pc, has_key, env_key, assess_response, complexity_score, agents, tasks,
             task_result, reviews, stage_input, editor_decision, final_results,
             out_of_order, timeout_expired>>
vars == <<agentVars, cacheVars, runVars>>

(***************************************************************************)
(* Bounds of the model.                                                    *)
(***************************************************************************)
MaxMsgLen == 2
MaxAttemptNumber == 10
MaxCalls == 3
HashSpace == 3
ScoreMargin == 50

(***************************************************************************)
(* Values.                                                                 *)
(***************************************************************************)
Chars == {" ", "a"}
Messages == UNION {[1..n -> Chars] : n \in 0..MaxMsgLen}
Texts == {"text1", "text2"}
TransientErrors == {"RateLimitError", "APITimeoutError"}
NonTransientErrors == {"BadRequestError"}
Errors == TransientErrors \cup NonTransientErrors
CapOutcomes == [kind : {"text"}, val : Texts] \cup [kind : {"error"}, val : Errors]

NoOutcome == [kind |-> "none", exc |-> "", val |-> ""]
Returned(t) == [kind |-> "return", exc |-> "", val |-> t]
Raised(exc, e) == [kind |-> "raise", exc |-> exc, val |-> e]

Max2(a, b) == IF a >= b THEN a ELSE b
Min2(a, b) == IF a <= b THEN a ELSE b

(***************************************************************************)
(* str.strip() and the emptiness test of Agent.run and AsyncAgent.arun.    *)
(***************************************************************************)
RECURSIVE LStrip(_)
LStrip(m) == IF m # <<>> /\ Head(m) = " " THEN LStrip(Tail(m)) ELSE m

RECURSIVE RStrip(_)
RStrip(m) ==
    IF m # <<>> /\ m[Len(m)] = " " THEN RStrip(SubSeq(m, 1, Len(m) - 1)) ELSE m

Strip(m) == RStrip(LStrip(m))

\* variant of IsEmptyMessage used to test the properties: the whitespace test is forgotten
IsEmptyMessage_NoStrip(m) == m = <<>>

\* `not message or not message.strip()`
IsEmptyMessage(m) == m = <<>> \/ Strip(m) = <<>>

(***************************************************************************)
(* The retry wrapper of Agent.run:                                         *)
(* @retry(stop=stop_after_attempt(3),                                      *)
(*        wait=wait_exponential(multiplier=1, min=4, max=60))              *)
(* with tenacity's default retry condition (any exception) and             *)
(* reraise=False (RetryError wraps the last attempt).                      *)
(***************************************************************************)
MaxAttempts == 3
WaitMultiplier == 1
WaitMin == 4
WaitMax == 60
CapLen == MaxAttempts + 1

\* variant of StopAfterAttempt used to test the properties: one attempt too few
StopAfterAttempt_Early(n) == n >= MaxAttempts - 1

\* variant of StopAfterAttempt used to test the properties: one attempt too many
StopAfterAttempt_Late(n) == n >= MaxAttempts + 1

\* stop_after_attempt(3): stop once attempt_number >= 3
StopAfterAttempt(n) == n >= MaxAttempts

\* variant of WaitExponential used to test the properties: no lower clamp
WaitExponential_NoFloor(n) == Min2(WaitMultiplier * 2 ^ (n - 1), WaitMax)

\* wait_exponential: max(max(0, min), min(multiplier * 2 ** (n - 1), max))
WaitExponential(n) ==
    Max2(Max2(0, WaitMin), Min2(WaitMultiplier * 2 ^ (n - 1), WaitMax))

\* tenacity after a failed attempt n that raised e: stop with RetryError
\* carrying that attempt, or sleep and try again
AfterFailure(n, e) ==
    IF StopAfterAttempt(n)
    THEN [pc |-> "raised", outcome |-> Raised("RetryError", e), wait |-> <<>>]
    ELSE [pc |-> "sleeping", outcome |-> NoOutcome, wait |-> <<WaitExponential(n)>>]

\* the checks of the body of Agent.run made before the external call:
\* "" when they pass, else the ValueError raised
RunPrecheck(hasClient, m) ==
    IF ~hasClient THEN "ValueError: OpenAI client not initialized"
    ELSE IF IsEmptyMessage(m) THEN "ValueError: Message content cannot be empty"
    ELSE ""

\* the attempt ended by raising e (the body's `except Exception: raise`)
AttemptFailed(e) ==
    LET d == AfterFailure(attempt_number, e) IN
    /\ run_pc' = d.pc
    /\ run_outcome' = d.outcome
    /\ waits' = waits \o d.wait

\* one entry into the body of Agent.run, up to the external call
RunAttempt ==
    /\ run_pc = "attempt"
    /\ entries' = entries + 1
    /\ LET e == RunPrecheck(client, message) IN
       IF e # ""
       THEN /\ AttemptFailed(e)
            /\ UNCHANGED calls
       ELSE /\ run_pc' = "calling"
            /\ calls' = calls + 1
            /\ UNCHANGED <<run_outcome, waits>>
    /\ UNCHANGED <<client, message, behaviour, attempt_number>>
    /\ UNCHANGED <<arun_pc, arun_calls, arun_outcome>>
    /\ UNCHANGED <<cacheVars, runVars>>

\* client.chat.completions.create returns: the content is returned as it is
CreateReturns ==
    /\ run_pc = "calling"
    /\ behaviour[calls].kind = "text"
    /\ run_pc' = "returned"
    /\ run_outcome' = Returned(behaviour[calls].val)
    /\ UNCHANGED <<client, message, behaviour, attempt_number, calls, entries, waits>>
    /\ UNCHANGED <<arun_pc, arun_calls, arun_outcome>>
    /\ UNCHANGED <<cacheVars, runVars>>

\* client.chat.completions.create raises: logged and re-raised to tenacity
CreateRaises ==
    /\ run_pc = "calling"
    /\ behaviour[calls].kind = "error"
    /\ AttemptFailed(behaviour[calls].val)
    /\ UNCHANGED <<client, message, behaviour, attempt_number, calls, entries>>
    /\ UNCHANGED <<arun_pc, arun_calls, arun_outcome>>
    /\ UNCHANGED <<cacheVars, runVars>>

\* the backoff sleep ends and the next attempt begins
SleepDone ==
    /\ run_pc = "sleeping"
    /\ run_pc' = "attempt"
    /\ attempt_number' = attempt_number + 1
    /\ UNCHANGED <<client, message, behaviour, calls, entries, waits, run_outcome>>
    /\ UNCHANGED <<arun_pc, arun_calls, arun_outcome>>
    /\ UNCHANGED <<cacheVars, runVars>>

(***************************************************************************)
(* AsyncAgent.arun: no retry wrapper; the emptiness test comes first.      *)
(***************************************************************************)
ArunStart ==
    /\ arun_pc = "start"
    /\ IF IsEmptyMessage(message)
       THEN /\ arun_pc' = "raised"
            /\ arun_outcome' =
                   Raised("ValueError", "ValueError: Message content cannot be empty")
            /\ UNCHANGED arun_calls
       ELSE /\ arun_pc' = "awaiting"
            /\ arun_calls' = arun_calls + 1
            /\ UNCHANGED arun_outcome
    /\ UNCHANGED <<client, message, behaviour, run_pc, attempt_number, calls,
                   entries, waits, run_outcome>>
    /\ UNCHANGED <<cacheVars, runVars>>

ArunCompletes ==
    /\ arun_pc = "awaiting"
    /\ LET r == behaviour[arun_calls] IN
       IF r.kind = "text"
       THEN /\ arun_pc' = "returned"
            /\ arun_outcome' = Returned(r.val)
       ELSE /\ arun_pc' = "raised"
            /\ arun_outcome' = Raised(r.val, r.val)
    /\ UNCHANGED <<client, message, behaviour, run_pc, attempt_number, calls,
                   entries, waits, run_outcome, arun_calls>>
    /\ UNCHANGED <<cacheVars, runVars>>

(***************************************************************************)
(* CachingAsyncAgent: _cache maps hash(message) to the text returned.      *)
(* hash() maps the messages onto a finite key space and is not injective.  *)
(***************************************************************************)
CharCode(c) == IF c = " " THEN 1 ELSE 2

RECURSIVE HashFrom(_, _)
HashFrom(h, m) ==
    IF m = <<>> THEN h
    ELSE HashFrom((h * 31 + CharCode(Head(m))) % HashSpace, Tail(m))

\* key = hash(message)
Hash(m) == HashFrom(0, m)

\* the messages the callers of the caching agent choose from;
\* hash(<<" ", "a">>) = hash(<<"a", " ">>)
CacheMessages == {<<>>, <<"a">>, <<" ", "a">>, <<"a", " ">>}
CacheError == "APIError"

Caller(m, st, res, hit) == [msg |-> m, pc |-> st, outcome |-> res, hit |-> hit]

Suspended == {i \in 1..Len(callers) : callers[i].pc = "awaiting"}

\* CachingAsyncAgent.arun(m) up to its first suspension point: a cache hit
\* returns at once; a miss enters AsyncAgent.arun, which raises on an empty
\* message and otherwise issues the external call and suspends
CachingArun(m) ==
    /\ Len(callers) < MaxCalls
    /\ LET key == Hash(m) IN
       IF key \in DOMAIN _cache
       THEN /\ callers' = Append(callers, Caller(m, "done", Returned(_cache[key]), TRUE))
            /\ UNCHANGED issued
       ELSE IF IsEmptyMessage(m)
       THEN /\ callers' = Append(callers,
                 Caller(m, "done",
                        Raised("ValueError", "ValueError: Message content cannot be empty"),
                        FALSE))
            /\ UNCHANGED issued
       ELSE /\ callers' = Append(callers, Caller(m, "awaiting", NoOutcome, FALSE))
            /\ issued' = [issued EXCEPT ![m] = @ + 1]
    /\ overlapped' = (overlapped \/ Suspended # {})
    /\ UNCHANGED _cache
    /\ UNCHANGED <<agentVars, runVars>>

\* variant of CacheStore used to test the properties: the result is not stored
CacheStore_Skip(c, key, t) == c

\* self._cache[key] = result
CacheStore(c, key, t) == [k \in DOMAIN c \cup {key} |-> IF k = key THEN t ELSE c[k]]

\* the awaited call of caller i returns t: the result is stored and returned
CallReturns(i, t) ==
    /\ callers[i].pc = "awaiting"
    /\ _cache' = CacheStore(_cache, Hash(callers[i].msg), t)
    /\ callers' = [callers EXCEPT ![i] = Caller(@.msg, "done", Returned(t), FALSE)]
    /\ UNCHANGED <<issued, overlapped>>
    /\ UNCHANGED <<agentVars, runVars>>

\* the awaited call of caller i raises: the exception leaves arun, nothing is stored
CallRaises(i) ==
    /\ callers[i].pc = "awaiting"
    /\ callers' = [callers EXCEPT ![i] = Caller(@.msg, "done", Raised(CacheError, CacheError), FALSE)]
    /\ UNCHANGED <<_cache, issued, overlapped>>
    /\ UNCHANGED <<agentVars, runVars>>

(***************************************************************************)
(* ReviewOrchestrator: the staged pipeline.                                *)
(* Scores and base weights are in hundredths (0.75 is 75).                 *)
(***************************************************************************)
main_agents ==
    <<"methodology", "results", "literature", "structure", "impact",
      "contradiction", "ethics", "ai_origin", "hallucination">>

AllAgentNames ==
    {"methodology", "results", "literature", "structure", "impact",
     "contradiction", "ethics", "ai_origin", "hallucination",
     "coordinator", "editor", "author_editor_summary"}

AGENT_BASE_COMPLEXITY ==
    [n \in AllAgentNames |->
        CASE n = "methodology" -> 90
          [] n = "results" -> 70
          [] n = "literature" -> 60
          [] n = "structure" -> 30
          [] n = "impact" -> 70
          [] n = "contradiction" -> 90
          [] n = "ethics" -> 50
          [] n = "ai_origin" -> 40
          [] n = "hallucination" -> 60
          [] n = "coordinator" -> 100
          [] n = "editor" -> 80
          [] n = "author_editor_summary" -> 80]

\* variant of BaseComplexity used to test the properties: an unregistered name weighs nothing
BaseComplexity_NoDefault(n) ==
    IF n \in DOMAIN AGENT_BASE_COMPLEXITY THEN AGENT_BASE_COMPLEXITY[n] ELSE 0

\* AGENT_BASE_COMPLEXITY.get(agent_name, 0.5)
BaseComplexity(n) ==
    IF n \in DOMAIN AGENT_BASE_COMPLEXITY THEN AGENT_BASE_COMPLEXITY[n] ELSE 50

\* variant of FinalScore used to test the properties: the task weight counts against the score
FinalScore_Inverted(n, score) == score * 60 + (100 - BaseComplexity(n)) * 40

\* final_score = score * 0.6 + base * 0.4, times 10000
FinalScore(n, score) == score * 60 + BaseComplexity(n) * 40

\* variant of DetermineModelForAgent used to test the properties: the thresholds are exclusive
DetermineModelForAgent_Strict(n, score) ==
    IF FinalScore(n, score) > 7500 THEN "powerful"
    ELSE IF FinalScore(n, score) > 5000 THEN "standard"
    ELSE "basic"

\* the tier chosen by _determine_model_for_agent
DetermineModelForAgent(n, score) ==
    IF FinalScore(n, score) >= 7500 THEN "powerful"
    ELSE IF FinalScore(n, score) >= 5000 THEN "standard"
    ELSE "basic"

\* variant of CreateAllAgents used to test the properties: the tiers are chosen with the default
\* score instead of the assessed one
CreateAllAgents_Default(score) ==
    [n \in AllAgentNames |-> [model |-> DetermineModelForAgent(n, 50)]]

\* create_all_agents: one plain Agent per name, with its tier
CreateAllAgents(score) ==
    [n \in AllAgentNames |-> [model |-> DetermineModelForAgent(n, score)]]

\* the answers of the complexity assessment call
AssessRaise == [kind |-> "raise", score |-> 0]
AssessJson(v) == [kind |-> "json", score |-> v]
AssessResponses == {AssessRaise} \cup {AssessJson(v) : v \in {50, 90, 150}}
NoAssessCall == [kind |-> "none", score |-> 0]

\* the other contents the call can answer with: a JSON object whose
\* "complexity_score" is a string holding a number, a string holding no
\* number, true or false, null, NaN, or absent; a JSON value that is not an
\* object; a text that is not JSON
AssessString(v) == [kind |-> "string", score |-> v]
AssessText == [kind |-> "text", score |-> 0]
AssessBool(b) == [kind |-> "bool", score |-> IF b THEN 100 ELSE 0]
AssessNull == [kind |-> "null", score |-> 0]
AssessNaN == [kind |-> "nan", score |-> 0]
AssessMissing == [kind |-> "missing", score |-> 0]
AssessNotObject == [kind |-> "not_object", score |-> 0]
AssessNotJson == [kind |-> "not_json", score |-> 0]

\* the scores a response can report, in hundredths
ReportedScores == (0 - ScoreMargin)..(100 + ScoreMargin)

AssessAnswers ==
    {AssessRaise, AssessText, AssessNull, AssessNaN, AssessMissing,
     AssessNotObject, AssessNotJson}
    \cup {AssessJson(v) : v \in ReportedScores}
    \cup {AssessString(v) : v \in ReportedScores}
    \cup {AssessBool(b) : b \in BOOLEAN}

\* float(result.get("complexity_score", 0.5)): a number is kept, a string is
\* parsed, true is 1.0 and false 0.0, an absent key gives 0.5; None and a
\* string that holds no number raise
FloatOfScore(resp) ==
    CASE resp.kind \in {"json", "string", "bool"} -> [kind |-> "float", val |-> resp.score]
      [] resp.kind = "missing" -> [kind |-> "float", val |-> 50]
      [] resp.kind = "nan" -> [kind |-> "nan", val |-> 0]
      [] OTHER -> [kind |-> "raise", val |-> 0]

\* _assess_paper_complexity: 0.5 without a client and when the call, the
\* parsing or the conversion raises; else the converted score when
\* 0.0 <= score <= 1.0 (false for NaN), and 0.5 when not
AssessPaperComplexity(hasClient, resp) ==
    IF ~hasClient THEN 50
    ELSE IF resp.kind \in {"raise", "not_json", "not_object"} THEN 50
    ELSE LET f == FloatOfScore(resp) IN
         IF f.kind = "float" /\ 0 <= f.val /\ f.val <= 100 THEN f.val ELSE 50

\* the prompt templates put fixed text around their parameters, so the
\* message of every task of the pipeline is not blank
PromptText == <<"a">>

\* the wrapped Agent.run as a function of what the capability answers to its
\* successive calls: attempt n, after c calls
RECURSIVE RunFrom(_, _, _, _, _)
RunFrom(n, c, hasClient, m, beh) ==
    LET pre == RunPrecheck(hasClient, m)
        called == pre = ""
        ok == called /\ beh[c + 1].kind = "text"
        e == IF called THEN beh[c + 1].val ELSE pre
        d == AfterFailure(n, e)
    IN  IF ok THEN Returned(beh[c + 1].val)
        ELSE IF d.pc = "raised" THEN d.outcome
        ELSE RunFrom(n + 1, IF called THEN c + 1 ELSE c, hasClient, m, beh)

RunResult(hasClient, m, beh) == RunFrom(1, 0, hasClient, m, beh)

\* the capability answering the calls of agent k: the text of k's review on
\* the calls where p holds, a transient error on the others
Beh(k, p) ==
    [i \in 1..CapLen |->
        IF p[i] THEN [kind |-> "text", val |-> <<"review", k>>]
        ELSE [kind |-> "error", val |-> "RateLimitError"]]

\* the capability first succeeds on its k-th call (k = 0: on none)
Patterns == {[i \in 1..CapLen |-> k # 0 /\ i >= k] : k \in 0..MaxAttempts}

Range(f) == {f[i] : i \in DOMAIN f}

\* the insertion-ordered dict: a sequence of entries with distinct names
Keys(d) == {d[i].name : i \in 1..Len(d)}
Entry(n, content, src) == [name |-> n, content |-> content, src |-> src]
\* variant of DictSet used to test the properties: the entry is written over the last one
DictSet_OverLast(d, e) ==
    IF d = <<>> THEN <<e>> ELSE [i \in 1..Len(d) |-> IF i = Len(d) THEN e ELSE d[i]]

\* variant of DictSet used to test the properties: the assignment is forgotten
DictSet_Forgotten(d, e) == d

\* d[e.name] = e
DictSet(d, e) ==
    IF e.name \in Keys(d)
    THEN [i \in 1..Len(d) |-> IF d[i].name = e.name THEN e ELSE d[i]]
    ELSE Append(d, e)

\* the places of es that assign a name for the first time
FirstPlaces(es) == {i \in 1..Len(es) : \A j \in 1..(i - 1) : es[j].name # es[i].name}

\* the dict built by assigning the entries of es in order: a name keeps the
\* place of its first assignment and the value of its last
DictOf(es, firsts) ==
    [r \in 1..Cardinality(firsts) |->
        LET f == CHOOSE i \in firsts : Cardinality({j \in firsts : j < i}) = r - 1
            l == CHOOSE i \in 1..Len(es) :
                     es[i].name = es[f].name /\ \A j \in (i + 1)..Len(es) : es[j].name # es[f].name
        IN  es[l]]

DictFromSeq(es) ==
    CHOOSE d \in {DictOf(e, firsts) : e \in {es}, firsts \in {FirstPlaces(es)}} : TRUE

\* the tasks list of _batch_process_agents: names without an agent are skipped
RECURSIVE Launched(_, _)
Launched(names, table) ==
    IF names = <<>> THEN <<>>
    ELSE IF Head(names) \in DOMAIN table
         THEN <<Head(names)>> \o Launched(Tail(names), table)
         ELSE Launched(Tail(names), table)

\* variant of GatherReady used to test the properties: the first completed task ends the wait
GatherReady_First(ts, res) == \E i \in 1..Len(ts) : res[ts[i]].kind # "none"

\* `await asyncio.gather(*tasks, ...)` resumes when every task is done
GatherReady(ts, res) == \A i \in 1..Len(ts) : res[ts[i]].kind # "none"

\* variant of Gather used to test the properties: return_exceptions is left out, the first exception
\* is raised to the caller
Gather_Propagate(results) ==
    IF \E i \in 1..Len(results) : results[i].kind = "raise"
    THEN [kind |-> "raise", val |-> <<>>]
    ELSE [kind |-> "return", val |-> results]

\* asyncio.gather(..., return_exceptions=True): the list of the results, an
\* exception standing where its task raised
Gather(results) == [kind |-> "return", val |-> results]

\* one entry of the loop over zip(agent_names, results_list)
BatchEntry(n, result, src) ==
    IF result.kind = "raise"
    THEN Entry(n, <<"Error during review: ", result.exc, result.val>>, src)
    ELSE Entry(n, result.val, src)

\* variant of BatchReviews used to test the properties: the texts are collected first and the
\* error entries appended after them
BatchReviews_ErrorsLast(names, ts, results_list) ==
    LET n == Min2(Len(names), Len(results_list))
        ok == SelectSeq([i \in 1..n |-> i], LAMBDA i : results_list[i].kind # "raise")
        ko == SelectSeq([i \in 1..n |-> i], LAMBDA i : results_list[i].kind = "raise")
        order == ok \o ko
    IN  [i \in 1..n |-> BatchEntry(names[order[i]], results_list[order[i]], ts[order[i]])]

\* reviews as built by the loop over zip(agent_names, results_list);
\* ts[i] is the task that produced results_list[i]
BatchReviews(names, ts, results_list) ==
    DictFromSeq([i \in 1..Min2(Len(names), Len(results_list)) |->
                    BatchEntry(names[i], results_list[i], ts[i])])

\* variant of StageMessage used to test the properties: the error entries are left out
StageMessage_OmitErrors(d) ==
    LET kept == SelectSeq(d, LAMBDA e : e.content[1] # "Error during review: ") IN
    [i \in 1..Len(kept) |-> [header |-> kept[i].name, body |-> kept[i].content]]

\* the sections "=== NAME REVIEW ===\n content" joined into a stage's message
StageMessage(d) == [i \in 1..Len(d) |-> [header |-> d[i].name, body |-> d[i].content]]

StageErrorPrefix(stage) ==
    CASE stage = "coordinator" -> "Error in coordinator assessment: "
      [] stage = "author_editor_summary" -> "Error in author/editor summary: "
      [] stage = "editor" -> "Error in editorial decision: "

StageUnavailable(stage) ==
    CASE stage = "coordinator" -> "Coordinator review not available"
      [] stage = "author_editor_summary" -> "Author/Editor summary not available"
      [] stage = "editor" -> "Editorial decision not available"

\* variant of ExecuteStage used to test the properties: the try/except around agent.run is missing
ExecuteStage_NoCatch(stage, table, hasClient, p) ==
    LET r == RunResult(hasClient, PromptText, Beh(stage, p)) IN
    IF r.kind = "raise" THEN [kind |-> "raise", val |-> <<>>]
    ELSE [kind |-> "return", val |-> r.val]

\* _execute_coordinator, _execute_author_editor_summary, _execute_editor:
\* the stage's agent is run on the message built from the reviews; a failure
\* of the agent is caught and returned as error text
ExecuteStage(stage, table, hasClient, p) ==
    IF stage \notin DOMAIN table
    THEN [kind |-> "return", val |-> <<StageUnavailable(stage)>>]
    ELSE LET r == RunResult(hasClient, PromptText, Beh(stage, p)) IN
         IF r.kind = "raise"
         THEN [kind |-> "return", val |-> <<StageErrorPrefix(stage), r.exc, r.val>>]
         ELSE [kind |-> "return", val |-> r.val]

\* config.model_powerful, config.model_standard, config.model_basic
Tiers == {"powerful", "standard", "basic"}

\* variant of SynthesizeResults used to test the properties: the decision is also stored in the
\* reviews
SynthesizeResults_Inserted(rs, decision) ==
    [reviews |-> Append(rs, Entry("editor", decision, "editor")),
     editor_decision |-> decision,
     models_used |-> [t \in Tiers |-> t],
     num_reviewers |-> Len(rs) + 1]

\* _synthesize_results: the reviews, the decision, and under "config" the
\* three configured models and the number of reviews
SynthesizeResults(rs, decision) ==
    [reviews |-> rs,
     editor_decision |-> decision,
     models_used |-> [t \in Tiers |-> t],
     num_reviewers |-> Len(rs)]

\* an exception leaves execute_review_process (logged and re-raised)
RunRaises ==
    /\ pc' = "raised"
    /\ UNCHANGED <<has_key, env_key, assess_response, complexity_score, agents, tasks,
                   task_result, reviews, stage_input, editor_decision, final_results>>

\* the complexity assessment ends (no call is made without a client)
Assess(resp) ==
    /\ pc = "assess"
    /\ has_key \/ resp = NoAssessCall
    /\ ~has_key \/ resp \in AssessAnswers
    /\ assess_response' = resp
    /\ complexity_score' = AssessPaperComplexity(has_key, resp)
    /\ pc' = "build"
    /\ UNCHANGED <<has_key, env_key, agents, tasks, task_result, reviews, stage_input,
                   editor_decision, final_results>>
    /\ UNCHANGED <<out_of_order, timeout_expired>>
    /\ UNCHANGED <<agentVars, cacheVars>>

\* the factory builds the agents and _batch_process_agents launches one task
\* per main reviewer that has an agent
LaunchPrimary ==
    /\ pc = "build"
    /\ agents' = CreateAllAgents(complexity_score)
    /\ tasks' = Launched(main_agents, agents')
    /\ task_result' = [k \in Range(tasks') |-> NoOutcome]
    /\ pc' = "gather"
    /\ UNCHANGED <<has_key, env_key, assess_response, complexity_score, reviews, stage_input,
                   editor_decision, final_results>>
    /\ UNCHANGED <<out_of_order, timeout_expired>>
    /\ UNCHANGED <<agentVars, cacheVars>>

\* a task listed before task k is still running
EarlierRunning(k) ==
    \E i, j \in 1..Len(tasks) : i < j /\ tasks[j] = k /\ task_result[tasks[i]].kind = "none"

\* the Agent.run of primary task k ends in the executor
PrimaryCompletes(k, p) ==
    /\ pc = "gather"
    /\ k \in Range(tasks)
    /\ task_result[k].kind = "none"
    /\ task_result' = [task_result EXCEPT ![k] = RunResult(env_key, PromptText, Beh(k, p))]
    /\ out_of_order' = (out_of_order \/ EarlierRunning(k))
    /\ UNCHANGED <<pc, has_key, env_key, assess_response, complexity_score, agents, tasks,
                   reviews, stage_input, editor_decision, final_results>>
    /\ UNCHANGED timeout_expired
    /\ UNCHANGED <<agentVars, cacheVars>>

\* gather resumes: the reviews are built and the coordinator is started on them
GatherDone ==
    /\ pc = "gather"
    /\ GatherReady(tasks, task_result)
    /\ LET g == Gather([i \in 1..Len(tasks) |-> task_result[tasks[i]]]) IN
       IF g.kind = "raise"
       THEN RunRaises
       ELSE /\ reviews' = BatchReviews(main_agents, tasks, g.val)
            /\ stage_input' = [stage_input EXCEPT !["coordinator"] = StageMessage(reviews')]
            /\ pc' = "coordinator"
            /\ UNCHANGED <<has_key, env_key, assess_response, complexity_score, agents, tasks,
                           task_result, editor_decision, final_results>>
    /\ UNCHANGED <<out_of_order, timeout_expired>>
    /\ UNCHANGED <<agentVars, cacheVars>>

\* the coordinator ends: its entry is added and the summary agent is started
CoordinatorCompletes(p) ==
    /\ pc = "coordinator"
    /\ LET r == ExecuteStage("coordinator", agents, env_key, p) IN
       IF r.kind = "raise"
       THEN RunRaises
       ELSE /\ reviews' = DictSet(reviews, Entry("coordinator", r.val, "coordinator"))
            /\ stage_input' =
                   [stage_input EXCEPT !["author_editor_summary"] = StageMessage(reviews')]
            /\ pc' = "summary"
            /\ UNCHANGED <<has_key, env_key, assess_response, complexity_score, agents, tasks,
                           task_result, editor_decision, final_results>>
    /\ UNCHANGED <<out_of_order, timeout_expired>>
    /\ UNCHANGED <<agentVars, cacheVars>>

\* the summary agent ends: its entry is added and the editor is started
SummaryCompletes(p) ==
    /\ pc = "summary"
    /\ LET r == ExecuteStage("author_editor_summary", agents, env_key, p) IN
       IF r.kind = "raise"
       THEN RunRaises
       ELSE /\ reviews' = DictSet(reviews,
                    Entry("author_editor_summary", r.val, "author_editor_summary"))
            /\ stage_input' = [stage_input EXCEPT !["editor"] = StageMessage(reviews')]
            /\ pc' = "editor"
            /\ UNCHANGED <<has_key, env_key, assess_response, complexity_score, agents, tasks,
                           task_result, editor_decision, final_results>>
    /\ UNCHANGED <<out_of_order, timeout_expired>>
    /\ UNCHANGED <<agentVars, cacheVars>>

\* the editor ends: the results are synthesized and returned
EditorCompletes(p) ==
    /\ pc = "editor"
    /\ LET r == ExecuteStage("editor", agents, env_key, p) IN
       IF r.kind = "raise"
       THEN RunRaises
       ELSE /\ editor_decision' = r.val
            /\ final_results' = SynthesizeResults(reviews, r.val)
            /\ pc' = "returned"
            /\ UNCHANGED <<has_key, env_key, assess_response, complexity_score, agents, tasks,
                           task_result, reviews, stage_input>>
    /\ UNCHANGED <<out_of_order, timeout_expired>>
    /\ UNCHANGED <<agentVars, cacheVars>>

\* _execute_main_reviewers on the agents the orchestrator holds: one task per
\* main reviewer that has an agent
BatchLaunch ==
    /\ pc = "batch"
    /\ tasks' = Launched(main_agents, agents)
    /\ task_result' = [k \in Range(tasks') |-> NoOutcome]
    /\ pc' = "gather"
    /\ UNCHANGED <<has_key, env_key, assess_response, complexity_score, agents, reviews,
                   stage_input, editor_decision, final_results>>
    /\ UNCHANGED <<out_of_order, timeout_expired>>
    /\ UNCHANGED <<agentVars, cacheVars>>

\* config.agent_timeout seconds have passed since the primary tasks were
\* launched: no code reads agent_timeout, so nothing else changes
AgentTimeoutExpires ==
    /\ pc = "gather"
    /\ ~timeout_expired
    /\ timeout_expired' = TRUE
    /\ UNCHANGED <<pc, has_key, env_key, assess_response, complexity_score, agents, tasks,
                   task_result, reviews, stage_input, editor_decision, final_results,
                   out_of_order>>
    /\ UNCHANGED <<agentVars, cacheVars>>

(***************************************************************************)
(* Specifications.                                                         *)
(***************************************************************************)
AgentIdle ==
    /\ client = TRUE
    /\ message = <<>>
    /\ behaviour = <<>>
    /\ run_pc = "idle"
    /\ attempt_number = 1
    /\ calls = 0
    /\ entries = 0
    /\ waits = <<>>
    /\ run_outcome = NoOutcome
    /\ arun_pc = "idle"
    /\ arun_calls = 0
    /\ arun_outcome = NoOutcome

CacheIdle ==
    /\ _cache = <<>>
    /\ callers = <<>>
    /\ issued = <<>>
    /\ overlapped = FALSE

RunIdle ==
    /\ pc = "idle"
    /\ has_key = TRUE
    /\ env_key = TRUE
    /\ assess_response = <<>>
    /\ complexity_score = 0
    /\ agents = <<>>
    /\ tasks = <<>>
    /\ task_result = <<>>
    /\ reviews = <<>>
    /\ stage_input = <<>>
    /\ editor_decision = <<>>
    /\ final_results = <<>>
    /\ out_of_order = FALSE
    /\ timeout_expired = FALSE

InitAgent ==
    /\ client \in BOOLEAN
    /\ message \in Messages
    /\ behaviour \in [1..CapLen -> CapOutcomes]
    /\ run_pc = "attempt"
    /\ attempt_number = 1
    /\ calls = 0
    /\ entries = 0
    /\ waits = <<>>
    /\ run_outcome = NoOutcome
    /\ arun_pc = "start"
    /\ arun_calls = 0
    /\ arun_outcome = NoOutcome
    /\ CacheIdle
    /\ RunIdle

NextAgent ==
    \/ RunAttempt
    \/ CreateReturns
    \/ CreateRaises
    \/ SleepDone
    \/ ArunStart
    \/ ArunCompletes

SpecAgent == InitAgent /\ [][NextAgent]_vars

InitCache ==
    /\ _cache = <<>>
    /\ callers = <<>>
    /\ issued = [m \in CacheMessages |-> 0]
    /\ overlapped = FALSE
    /\ AgentIdle
    /\ RunIdle

NextCache ==
    \/ \E m \in CacheMessages : CachingArun(m)
    \/ \E i \in 1..Len(callers) : \E t \in Texts : CallReturns(i, t)
    \/ \E i \in 1..Len(callers) : CallRaises(i)

SpecCache == InitCache /\ [][NextCache]_vars

Stages == {"coordinator", "author_editor_summary", "editor"}

Init ==
    /\ pc = "assess"
    /\ has_key \in BOOLEAN
    /\ env_key \in BOOLEAN
    /\ assess_response = NoAssessCall
    /\ complexity_score = 0
    /\ agents = <<>>
    /\ tasks = <<>>
    /\ task_result = <<>>
    /\ reviews = <<>>
    /\ stage_input = [st \in Stages |-> <<>>]
    /\ editor_decision = <<>>
    /\ final_results = <<>>
    /\ out_of_order = FALSE
    /\ timeout_expired = FALSE
    /\ AgentIdle
    /\ CacheIdle

Next ==
    \/ \E resp \in AssessResponses \cup {NoAssessCall} : Assess(resp)
    \/ LaunchPrimary
    \/ \E k \in Range(tasks) : \E p \in Patterns : PrimaryCompletes(k, p)
    \/ GatherDone
    \/ \E p \in Patterns : CoordinatorCompletes(p)
    \/ \E p \in Patterns : SummaryCompletes(p)
    \/ \E p \in Patterns : EditorCompletes(p)

Spec == Init /\ [][Next]_vars

\* the assessment of any answer, followed by the creation of the agents
NextScore ==
    \/ \E resp \in AssessAnswers \cup {NoAssessCall} : Assess(resp)
    \/ LaunchPrimary

SpecScore == Init /\ [][NextScore]_vars

\* an agents table without an agent for some of the main reviewers
\* (`self.agents.get(name)` is None for them)
PartialAgents ==
    [n \in {"results", "ethics", "coordinator", "editor", "author_editor_summary"} |->
        CreateAllAgents(50)[n]]

\* the agents an orchestrator can hold when its stages are run: none (as
\* constructed), all of them (as created by the factory), or some of them
AgentTables == {<<>>, CreateAllAgents(50), PartialAgents}

InitBatch ==
    /\ pc = "batch"
    /\ has_key = TRUE
    /\ env_key = TRUE
    /\ assess_response = NoAssessCall
    /\ complexity_score = 50
    /\ agents \in AgentTables
    /\ tasks = <<>>
    /\ task_result = <<>>
    /\ reviews = <<>>
    /\ stage_input = [st \in Stages |-> <<>>]
    /\ editor_decision = <<>>
    /\ final_results = <<>>
    /\ out_of_order = FALSE
    /\ timeout_expired = FALSE
    /\ AgentIdle
    /\ CacheIdle

\* the stages from _execute_main_reviewers on, with the passing of time
NextBatch ==
    \/ BatchLaunch
    \/ AgentTimeoutExpires
    \/ \E k \in Range(tasks) : \E p \in Patterns : PrimaryCompletes(k, p)
    \/ GatherDone
    \/ \E p \in Patterns : CoordinatorCompletes(p)
    \/ \E p \in Patterns : SummaryCompletes(p)
    \/ \E p \in Patterns : EditorCompletes(p)

SpecBatch == InitBatch /\ [][NextBatch]_vars

(***************************************************************************)
(* Claims about the pipeline (Spec).                                       *)
(***************************************************************************)
AfterFanOut == {"coordinator", "summary", "editor", "returned"}
AfterAggregate == {"summary", "editor", "returned"}
AfterSummarize == {"editor", "returned"}
Headers(msg) == {msg[i].header : i \in 1..Len(msg)}
Failed(k) == k \in DOMAIN task_result /\ task_result[k].kind = "raise"
Succeeded(k) == k \in DOMAIN task_result /\ task_result[k].kind = "return"
EntriesOf(d, n) == {i \in 1..Len(d) : d[i].name = n}

\* C1: the coordinator is not started before every launched primary task has
\* produced its result, the summary agent not before the coordinator's entry
\* exists, the editor not before the summary's entry exists; the message a
\* stage is given has a section for every entry of the preceding stage.
C1_StageBarrier ==
    /\ pc \in AfterFanOut =>
          /\ \A i \in 1..Len(tasks) : task_result[tasks[i]].kind \in {"return", "raise"}
          /\ Range(tasks) \subseteq Headers(stage_input["coordinator"])
    /\ pc \in AfterAggregate =>
          Range(tasks) \cup {"coordinator"} \subseteq Headers(stage_input["author_editor_summary"])
    /\ pc \in AfterSummarize =>
          Range(tasks) \cup {"coordinator", "author_editor_summary"}
              \subseteq Headers(stage_input["editor"])

C1_Witness ==
    /\ pc = "editor"
    /\ \E k \in Range(tasks) : Failed(k)
    /\ \E k \in Range(tasks) : Succeeded(k)

\* C2: whatever subset of the 9 primary tasks fails, all 9 were launched and
\* ran to their own result, the reviews built by the fan-out hold exactly one
\* entry for each of the 9 identifiers (the task's text if it succeeded, an
\* error entry if it failed), and the run goes on to the coordinator instead
\* of raising.
C2_FanOutIsolation ==
    /\ pc # "raised"
    /\ pc \in {"gather"} \cup AfterFanOut => tasks = main_agents
    /\ pc \in AfterFanOut =>
          /\ Headers(stage_input["coordinator"]) = Range(main_agents)
          /\ Len(stage_input["coordinator"]) = 9
          /\ \A i \in 1..9 :
                LET k == main_agents[i] IN
                /\ Cardinality(EntriesOf(reviews, k)) = 1
                /\ \A j \in EntriesOf(reviews, k) :
                      /\ Succeeded(k) => reviews[j].content = <<"review", k>>
                      /\ Failed(k) => reviews[j].content[1] = "Error during review: "
                      /\ Succeeded(k) \/ Failed(k)

C2_Witness ==
    /\ pc = "coordinator"
    /\ \A i \in 1..9 : Failed(main_agents[i])
    /\ Len(reviews) = 9

PendingTasks == Cardinality({k \in DOMAIN task_result : task_result[k].kind = "none"})
StageRank ==
    CASE pc = "assess" -> 6
      [] pc = "build" -> 5
      [] pc = "gather" -> 4
      [] pc = "coordinator" -> 3
      [] pc = "summary" -> 2
      [] pc = "editor" -> 1
      [] OTHER -> 0
Measure == StageRank * (Len(main_agents) + 1) + PendingTasks
HasDecision ==
    /\ pc = "returned"
    /\ final_results # <<>>
    /\ final_results.editor_decision # <<>>
    /\ final_results.editor_decision = editor_decision

\* C3: every run ends by returning a result that holds a decision artifact,
\* whatever fails among the assessment, the primary tasks, the coordinator,
\* the summary agent and the editor, and no failure leaves the run call:
\* no step raises out of the run, every step lowers a measure that is bounded
\* below (so a run in which every external call returns or raises has finitely
\* many steps), and the run can stop only where it has returned a result with
\* its decision.
C3_Completion ==
    /\ [](pc # "raised")
    /\ [][Measure' < Measure]_vars
    /\ []((~ENABLED Next) => HasDecision)

C3_Witness ==
    /\ pc = "returned"
    /\ assess_response = AssessRaise
    /\ \A i \in 1..9 : Failed(main_agents[i])
    /\ \A n \in {"coordinator", "author_editor_summary"} :
          \A j \in EntriesOf(reviews, n) : Len(reviews[j].content) = 3
    /\ final_results.editor_decision[1] = "Error in editorial decision: "

(***************************************************************************)
(* Claims about Agent.run and AsyncAgent.arun (SpecAgent).                 *)
(***************************************************************************)
NonBlank(m) == \E i \in 1..Len(m) : m[i] # " "
Blank(m) == \A i \in 1..Len(m) : m[i] = " "
RunDone == run_pc \in {"returned", "raised"}
IsTransient(r) == r.kind = "error" /\ r.val \in TransientErrors

\* the capability fails transiently on calls 1..k-1 and succeeds on call k
FirstSuccess(k) ==
    /\ behaviour[k].kind = "text"
    /\ \A i \in 1..(k - 1) : IsTransient(behaviour[i])

\* C4: for a non-empty message (and an initialized client), if the capability
\* fails transiently on the first k-1 attempts and succeeds on attempt k <= 3,
\* Agent.run never issues more than k calls and ends by returning exactly the
\* text of call k, having issued exactly k calls.
C4_RetryToSuccess ==
    \A k \in 1..3 :
        (client /\ NonBlank(message) /\ FirstSuccess(k)) =>
            /\ calls <= k
            /\ run_pc # "raised"
            /\ RunDone => (run_outcome = Returned(behaviour[k].val) /\ calls = k)

C4_Witness ==
    /\ client /\ NonBlank(message) /\ FirstSuccess(3)
    /\ run_pc = "returned" /\ calls = 3 /\ Len(waits) = 2

\* C5: if the capability fails transiently on every attempt, Agent.run issues
\* exactly 3 calls, never a fourth, and then raises a failure (RetryError)
\* that carries the error of the third attempt.
C5_RetryExhaustion ==
    (client /\ NonBlank(message) /\ \A i \in 1..3 : IsTransient(behaviour[i])) =>
        /\ calls <= 3
        /\ run_pc # "returned"
        /\ RunDone => (calls = 3 /\ run_outcome = Raised("RetryError", behaviour[3].val))

C5_Witness ==
    /\ client /\ NonBlank(message) /\ \A i \in 1..3 : IsTransient(behaviour[i])
    /\ behaviour[1].val # behaviour[3].val
    /\ run_pc = "raised" /\ calls = 3

\* C6: when the capability rejects the first attempt with a non-transient
\* error, Agent.run makes exactly one call and surfaces the failure at once,
\* with no backoff wait and no second attempt.
C6_NonTransientNotRetried ==
    (client /\ NonBlank(message) /\ behaviour[1].kind = "error"
        /\ behaviour[1].val \in NonTransientErrors) =>
        /\ calls <= 1
        /\ entries <= 1
        /\ waits = <<>>
        /\ run_pc # "returned"

\* C7: for an empty or whitespace-only message, Agent.run and AsyncAgent.arun
\* never invoke the capability (zero calls, whatever the number of attempts)
\* and can only end in a failure.
C7_EmptyInputNoCall ==
    Blank(message) =>
        /\ calls = 0 /\ run_pc \notin {"calling", "returned"}
        /\ arun_calls = 0 /\ arun_pc \notin {"awaiting", "returned"}

C7_Witness ==
    /\ client /\ message # <<>> /\ Blank(message)
    /\ run_pc = "raised" /\ arun_pc = "raised"
    /\ entries > 1 /\ calls = 0 /\ arun_calls = 0

\* C8: for an empty or whitespace-only message, the body of Agent.run is
\* entered exactly once and no backoff wait elapses before the failure is
\* surfaced.
C8_EmptyInputNotRetried ==
    (client /\ Blank(message)) => (entries <= 1 /\ waits = <<>>)

(***************************************************************************)
(* Claims about CachingAsyncAgent.arun (SpecCache).                        *)
(***************************************************************************)
InFlight(m) ==
    Cardinality({i \in 1..Len(callers) : callers[i].pc = "awaiting" /\ callers[i].msg = m})

\* C9: when the arun calls on one instance do not overlap, for every non-empty
\* message, once the first arun(message) has returned successfully every later
\* arun with the same message returns the identical text without a further
\* underlying call, so that exactly one underlying call was issued for it.
C9_SequentialMemoization ==
    ~overlapped =>
        \A i, j \in 1..Len(callers) :
            (/\ i < j
             /\ \A h \in 1..(i - 1) : callers[h].msg # callers[i].msg
             /\ callers[i].msg = callers[j].msg
             /\ NonBlank(callers[i].msg)
             /\ callers[i].outcome.kind = "return") =>
                /\ callers[j].pc = "done"
                /\ callers[j].hit
                /\ callers[j].outcome = callers[i].outcome
                /\ issued[callers[i].msg] = 1

\* C10: at most one underlying call is ever in flight for one message on one
\* CachingAsyncAgent instance.
C10_SingleFlight == \A m \in CacheMessages : InFlight(m) <= 1

\* a call of caller i to the underlying runner that returned its text
Produced(i) == ~callers[i].hit /\ callers[i].outcome.kind = "return"

\* C11: a failed arun leaves no entry in the cache (every entry holds the text
\* of an underlying call that returned), and after a failed arun(message) a
\* later arun with the same message is not answered from the cache unless an
\* underlying call with that message has succeeded: it invokes the underlying
\* runner again.
C11_FailuresNotCached ==
    /\ \A key \in DOMAIN _cache :
          \E i \in 1..Len(callers) :
              /\ Produced(i)
              /\ Hash(callers[i].msg) = key
              /\ callers[i].outcome.val = _cache[key]
    /\ \A i, j \in 1..Len(callers) :
          (/\ i < j
           /\ callers[i].msg = callers[j].msg
           /\ callers[i].outcome.kind = "raise"
           /\ callers[j].hit) =>
              \E h \in 1..Len(callers) : Produced(h) /\ callers[h].msg = callers[j].msg

\* C12: a cache hit returns only a text that an underlying call made with the
\* exact same message returned; a message that was never run is never answered
\* from the cache, also when another message has the same hash value.
C12_ExactMessageKeys ==
    \A j \in 1..Len(callers) :
        callers[j].hit =>
            \E i \in 1..Len(callers) :
                /\ Produced(i)
                /\ callers[i].msg = callers[j].msg
                /\ callers[i].outcome = callers[j].outcome

(***************************************************************************)
(* Claims about the complexity score and the tiers (SpecScore, Spec).      *)
(***************************************************************************)
\* the reference tier for base weight b and complexity c, in hundredths
RefTier(b, c) ==
    LET finalScore == c * 60 + b * 40 IN
    CASE finalScore >= 7500 -> "powerful"
      [] finalScore >= 5000 /\ finalScore < 7500 -> "standard"
      [] finalScore < 5000 -> "basic"

AgentsBuilt == pc \notin {"assess", "build", "idle"}

ReportsValidNumber ==
    /\ has_key
    /\ assess_response.kind = "json"
    /\ 0 <= assess_response.score /\ assess_response.score <= 100

\* C14: the assessor never raises and always returns a value in [0, 1]: the
\* reported score when it is a number within [0, 1], and exactly 0.5 in every
\* other case (no client, the call raises, the response cannot be parsed, the
\* field is missing or is not a number, the value is out of range).
C14_AssessorDefault ==
    pc \notin {"assess", "idle"} =>
        /\ pc # "raised"
        /\ 0 <= complexity_score /\ complexity_score <= 100
        /\ ReportsValidNumber => complexity_score = assess_response.score
        /\ ~ReportsValidNumber => complexity_score = 50

\* C15: the assessment is made once, before any tier is selected; its score
\* never changes afterwards; every agent of the run (the 9 primary ones, the
\* coordinator, the summary agent and the editor) has the tier that its
\* registered base weight and that one score give, and the score is 0.5 for
\* all of them when the assessment call raised.
C15_OneScorePerRun ==
    /\ [](pc = "assess" => agents = <<>>)
    /\ [](AgentsBuilt =>
            \A n \in AllAgentNames :
                /\ n \in DOMAIN agents
                /\ agents[n].model = RefTier(AGENT_BASE_COMPLEXITY[n], complexity_score))
    /\ []((pc # "assess" /\ assess_response = AssessRaise) => complexity_score = 50)
    /\ [][pc # "assess" =>
            /\ pc' # "assess"
            /\ complexity_score' = complexity_score
            /\ assess_response' = assess_response]_vars
    /\ [][AgentsBuilt => agents' = agents]_vars

C15_Witness ==
    /\ pc = "returned"
    /\ assess_response = AssessJson(90)
    /\ complexity_score = 90
    /\ agents["structure"].model = "standard"
    /\ agents["coordinator"].model = "powerful"

(***************************************************************************)
(* Claims about the inputs of the fan-in stages (Spec).                    *)
(***************************************************************************)
HeaderSeq(msg) == [i \in 1..Len(msg) |-> msg[i].header]

\* the text the fan-out records for a task's result
Rendered(r) ==
    IF r.kind = "raise" THEN <<"Error during review: ", r.exc, r.val>> ELSE r.val

\* C16: the primary entries appear in the coordinator's input in one fixed
\* order of identifiers (that of main_agents), and every section holds what
\* its own task produced, whatever the order in which the tasks ended: the
\* input is a function of the tasks' results alone.
C16_CanonicalOrder ==
    pc \in AfterFanOut =>
        /\ HeaderSeq(stage_input["coordinator"]) = main_agents
        /\ \A i \in 1..Len(main_agents) :
              stage_input["coordinator"][i].body = Rendered(task_result[main_agents[i]])

C16_Witness ==
    /\ pc = "coordinator"
    /\ out_of_order
    /\ Failed("methodology") /\ Succeeded("results")
    /\ Succeeded("ai_origin") /\ Failed("hallucination")

PrimaryNames == Range(main_agents)

\* C17: the coordinator's input holds the entries of the primary tasks and
\* nothing else, the summary agent's input those and the coordinator's entry,
\* the editor's input those and the summary agent's entry, each entry once and
\* as it stands in the reviews; a stage that has not started has no input, so
\* no input holds the output of its own or a later stage.
C17_FanInInputs ==
    /\ pc \in AfterFanOut =>
          /\ Headers(stage_input["coordinator"]) = PrimaryNames
          /\ Len(stage_input["coordinator"]) = Cardinality(PrimaryNames)
    /\ pc \in AfterAggregate =>
          /\ Headers(stage_input["author_editor_summary"]) = PrimaryNames \cup {"coordinator"}
          /\ Len(stage_input["author_editor_summary"]) = Cardinality(PrimaryNames) + 1
          /\ \A i \in 1..Len(stage_input["coordinator"]) :
                stage_input["author_editor_summary"][i] = stage_input["coordinator"][i]
    /\ pc \in AfterSummarize =>
          /\ Headers(stage_input["editor"]) =
                 PrimaryNames \cup {"coordinator", "author_editor_summary"}
          /\ Len(stage_input["editor"]) = Cardinality(PrimaryNames) + 2
          /\ \A i \in 1..Len(stage_input["author_editor_summary"]) :
                stage_input["editor"][i] = stage_input["author_editor_summary"][i]
          /\ \A i \in 1..Len(reviews) :
                /\ stage_input["editor"][i].header = reviews[i].name
                /\ stage_input["editor"][i].body = reviews[i].content
    /\ pc \notin AfterFanOut => stage_input["coordinator"] = <<>>
    /\ pc \notin AfterAggregate => stage_input["author_editor_summary"] = <<>>
    /\ pc \notin AfterSummarize => stage_input["editor"] = <<>>

C17_Witness ==
    /\ pc = "returned"
    /\ Len(stage_input["editor"]) = 11
    /\ stage_input["editor"][10].body = <<"review", "coordinator">>
    /\ stage_input["editor"][11].body[1] = "Error in author/editor summary: "

SectionsOf(msg, k) == {i \in 1..Len(msg) : msg[i].header = k}

\* C20: for every primary task that failed, the input built for the
\* coordinator, for the summary agent and for the editor has a section under
\* the task's identifier that holds the error text "Error during review: ...",
\* and the coordinator's input has as many sections as there are primary
\* tasks, whatever subset failed.
C20_FailuresRendered ==
    /\ \A st \in Stages :
          stage_input[st] # <<>> =>
              \A k \in PrimaryNames :
                  Failed(k) =>
                      /\ SectionsOf(stage_input[st], k) # {}
                      /\ \A i \in SectionsOf(stage_input[st], k) :
                            stage_input[st][i].body[1] = "Error during review: "
    /\ pc \in AfterFanOut =>
          /\ Len(stage_input["coordinator"]) = Len(main_agents)
          /\ Len(stage_input["coordinator"]) = Len(tasks)

C20_Witness ==
    /\ pc = "returned"
    /\ \A st \in Stages : stage_input[st] # <<>>
    /\ Cardinality({k \in PrimaryNames : Failed(k)}) = 5
    /\ Cardinality({k \in PrimaryNames : Succeeded(k)}) = 4

(***************************************************************************)
(* Claims about the timeout and the empty fan-out (SpecBatch).             *)
(***************************************************************************)
\* C18: once the per-task timeout budget (agent_timeout) has expired, every
\* task whose call had not returned is recorded as failed (no task is still
\* pending), so that the run does not stay in the fan-out.
C18_PerTaskTimeout ==
    timeout_expired =>
        \A i \in 1..Len(tasks) : task_result[tasks[i]].kind \in {"return", "raise"}

C21_DecisionSeparate ==
    /\ "editor" \notin Keys(reviews)
    /\ \A i \in 1..Len(reviews) : reviews[i].src # "editor"
    /\ pc = "returned" =>
          /\ Keys(final_results.reviews) =
                 PrimaryNames \cup {"coordinator", "author_editor_summary"}
          /\ Len(final_results.reviews) = Cardinality(PrimaryNames) + 2
          /\ final_results.reviews = reviews
          /\ final_results.editor_decision = editor_decision
          /\ editor_decision # <<>>
          /\ \A i \in 1..Len(final_results.reviews) :
                final_results.reviews[i].content # editor_decision

C21_Witness ==
    /\ pc = "returned"
    /\ final_results.editor_decision = <<"review", "editor">>
    /\ Len(final_results.reviews) = 11
    /\ final_results.num_reviewers = 11

\* the tiers the final result records by task identifier
TaskTiers(fr) ==
    [n \in DOMAIN fr.models_used \cap AllAgentNames |-> fr.models_used[n]]

\* C22: the final result of a run records, for every task that ran (the
\* primary tasks, the coordinator, the summary agent, the editor), the tier
\* the task was given in this run, equal to the tier selected when the agents
\* were built.
C22_TiersRecorded ==
    pc = "returned" =>
        \A n \in Range(tasks) \cup Stages :
            /\ n \in DOMAIN TaskTiers(final_results)
            /\ TaskTiers(final_results)[n] = agents[n].model

\* C23: every identifier has at most one entry in the reviews; a step never
\* changes or removes an entry that exists (the fan-out writes the primary
\* entries at once, each later stage appends its own entry), and the editor's
\* task leaves the reviews unchanged.
C23_WriteOnce ==
    /\ [](\A i, j \in 1..Len(reviews) : reviews[i].name = reviews[j].name => i = j)
    /\ [][/\ Len(reviews') >= Len(reviews)
          /\ \A i \in 1..Len(reviews) : reviews'[i] = reviews[i]]_vars
    /\ [][pc = "coordinator" => Len(reviews') = Len(reviews) + 1]_vars
    /\ [][pc = "summary" => Len(reviews') = Len(reviews) + 1]_vars
    /\ [][pc = "editor" => reviews' = reviews]_vars

C23_Witness ==
    /\ pc = "returned"
    /\ Len(reviews) = 11
    /\ reviews[10].content[1] = "Error in coordinator assessment: "
    /\ reviews[11].content = <<"review", "author_editor_summary">>

(***************************************************************************)
(* Claims about the backoff of Agent.run (SpecAgent).                      *)
(***************************************************************************)
\* C24: every wait that Agent.run sleeps between two consecutive attempts is
\* at least 4 and at most 60, and so is the wait computed for every attempt
\* number.
C24_BackoffBounds ==
    /\ \A i \in 1..Len(waits) : 4 <= waits[i] /\ waits[i] <= 60
    /\ \A n \in 1..MaxAttemptNumber :
          (n >= attempt_number) => (4 <= WaitExponential(n) /\ WaitExponential(n) <= 60)

C24_Witness ==
    /\ client /\ NonBlank(message)
    /\ run_pc = "sleeping" /\ attempt_number = 2 /\ Len(waits) = 2

\* C25: the wait before the second attempt of Agent.run is 4 and the wait
\* before the third attempt is strictly larger than the wait before the second.
C25_BackoffGrows ==
    /\ (Len(waits) >= 1) => (waits[1] = 4)
    /\ (Len(waits) >= 2) => (waits[2] > waits[1])

\* the arun calls with message m that ended in the failure of the capability
FailedAruns(m) ==
    {i \in 1..Len(callers) :
        /\ callers[i].msg = m /\ callers[i].pc = "done"
        /\ callers[i].outcome = Raised(CacheError, CacheError)}

\* C26: on a cache miss CachingAsyncAgent.arun applies the retry policy of
\* Agent.run: an arun surfaces the failure of the capability only after 3
\* failed underlying calls, never after the first one.
C26_CachingRetries ==
    \A m \in CacheMessages : MaxAttempts * Cardinality(FailedAruns(m)) <= issued[m]

(***************************************************************************)
(* Claims about the attribution of the results (SpecBatch).                *)
(***************************************************************************)
\* C27: whatever agents the table holds, every entry stored in the reviews
\* under a primary identifier is the result of the task launched for that
\* identifier, and the result of every launched task is stored.
C27_Attribution ==
    pc \in AfterFanOut =>
        /\ \A i \in 1..Len(reviews) :
              (reviews[i].name \in PrimaryNames) => (reviews[i].src = reviews[i].name)
        /\ \A i \in 1..Len(tasks) :
              \E j \in 1..Len(reviews) : reviews[j].src = tasks[i]

(***************************************************************************)
(* Claims about concurrent callers of CachingAsyncAgent.arun (SpecCache).  *)
(***************************************************************************)
\* C28: all the arun calls with the identical message that return on one
\* instance return the same text, and the text cached under the key of a
\* message is the text of the first underlying call that stored it: no
\* later return replaces it.
C28_OneValue ==
    \A i, j \in 1..Len(callers) :
        (/\ callers[i].msg = callers[j].msg
         /\ callers[i].outcome.kind = "return"
         /\ callers[j].outcome.kind = "return") =>
            /\ callers[i].outcome.val = callers[j].outcome.val
            /\ _cache[Hash(callers[i].msg)] = callers[i].outcome.val

(***************************************************************************)
(* Claims about the order of the tiers (SpecScore).                        *)
(***************************************************************************)
TierRank(t) == CASE t = "basic" -> 1 [] t = "standard" -> 2 [] t = "powerful" -> 3

\* the registered identifiers and one that the registry does not hold
TierNames == AllAgentNames \cup {"unregistered"}

\* C29: with basic < standard < powerful, the tier selected for a weight and
\* a complexity in [0, 1] is never higher than the tier selected for a weight
\* and a complexity that are both at least as large; within one run the
\* coordinator's tier is never lower than the tier of any other agent.
C29_TierMonotone ==
    AgentsBuilt =>
        /\ (complexity_score \in 0..100) =>
              \A n1 \in AllAgentNames : \A n2 \in TierNames :
                  (BaseComplexity(n1) <= BaseComplexity(n2)) =>
                      \A c2 \in complexity_score..100 :
                          TierRank(agents[n1].model)
                              <= TierRank(DetermineModelForAgent(n2, c2))
        /\ \A n \in AllAgentNames :
              TierRank(agents[n].model) <= TierRank(agents["coordinator"].model)

C29_Witness ==
    /\ AgentsBuilt
    /\ complexity_score = 60
    /\ agents["coordinator"].model = "powerful"
    /\ agents["ethics"].model = "standard"
    /\ agents["structure"].model = "basic"

\* C30: when the score of the run is the default 0.5, no agent is given the
\* powerful tier, every agent whose registered weight is at least 0.5 (ethics
\* included) is given standard, the agents below 0.5 are structure and
\* ai_origin and are given basic, and an identifier the registry does not
\* hold is treated as weight 0.5.
C30_DegradedTiers ==
    (AgentsBuilt /\ complexity_score = 50) =>
        /\ \A n \in AllAgentNames :
              /\ agents[n].model # "powerful"
              /\ (AGENT_BASE_COMPLEXITY[n] >= 50) => (agents[n].model = "standard")
              /\ (AGENT_BASE_COMPLEXITY[n] < 50) =>
                    (n \in {"structure", "ai_origin"} /\ agents[n].model = "basic")
        /\ AGENT_BASE_COMPLEXITY["ethics"] = 50 /\ agents["ethics"].model = "standard"
        /\ AGENT_BASE_COMPLEXITY["structure"] = 30 /\ AGENT_BASE_COMPLEXITY["ai_origin"] = 40
        /\ BaseComplexity("unregistered") = 50
        /\ DetermineModelForAgent("unregistered", complexity_score) = agents["ethics"].model

C30_Witness ==
    /\ AgentsBuilt
    /\ assess_response = AssessRaise
    /\ complexity_score = 50
    /\ agents["ethics"].model = "standard"
    /\ agents["ai_origin"].model = "basic"

====
